---- MODULE Spec2Model ----
(***************************************************************************)
(* A model of hashring (src/lib.rs): HashRing<T, U>, a consistent hash     *)
(* ring kept as a Vec<Node<T>> sorted by a u64 key taken from the MD5      *)
(* digest of the node's to_string().                                       *)
(*                                                                         *)
(* A u64 is written as its eight base-256 digits, most significant first   *)
(* (TLC's integers are 32 bits wide), so that `x << 8k`, `|` and the       *)
(* ordering of u64 are exact.                                              *)
(***************************************************************************)
EXTENDS Integers, Sequences, FiniteSets

\* ------------------------------------------------------------------ bounds

\* The longest ring the model builds.
MaxRing == 3
\* The number of add calls in one run.
MaxAdds == 4
\* The longest ring of the two-ring specification.
MaxDet == 2

\* ------------------------------------------------------------- the callers

\* Option::None.
None == "None"

\* The node values (T) the callers use.
Nodes == {"n1", "n1b", "n2", "n3", "n4"}

\* The keys (U) the callers look up.
Keys == {"kA", "klo", "kmid", "khi"}

\* T::to_string and U::to_string: n1 and n1b are two values with one
\* identity; key kA renders to the identity of node n1.
ToString(v) ==
    CASE v = "n1" -> "A"
      [] v = "n1b" -> "A"
      [] v = "n2" -> "B"
      [] v = "n3" -> "C"
      [] v = "n4" -> "D"
      [] v = "kA" -> "A"
      [] v = "klo" -> "lo"
      [] v = "kmid" -> "mid"
      [] v = "khi" -> "hi"

\* ------------------------------------------------------------------- u64

\* Bitwise or of two naturals.
RECURSIVE BitOr(_, _)
BitOr(a, b) ==
    IF a = 0 THEN b
    ELSE IF b = 0 THEN a
    ELSE (IF a % 2 = 1 \/ b % 2 = 1 THEN 1 ELSE 0) + 2 * BitOr(a \div 2, b \div 2)

\* u64::from(b) for a byte b.
U64From(b) == <<0, 0, 0, 0, 0, 0, 0, b>>

\* Digit i of x (1 the most significant), 0 past the least significant.
Digit(x, i) == IF i <= 8 THEN x[i] ELSE 0

\* x << bits for a u64 x, bits a multiple of 8: the digits move up by bits/8
\* places and those shifted past the top are lost.
U64Shl(x, bits) ==
    LET k == bits \div 8
    IN <<Digit(x, 1 + k), Digit(x, 2 + k), Digit(x, 3 + k), Digit(x, 4 + k),
         Digit(x, 5 + k), Digit(x, 6 + k), Digit(x, 7 + k), Digit(x, 8 + k)>>

\* x | y for two u64.
U64Or(x, y) ==
    <<BitOr(x[1], y[1]), BitOr(x[2], y[2]), BitOr(x[3], y[3]), BitOr(x[4], y[4]),
      BitOr(x[5], y[5]), BitOr(x[6], y[6]), BitOr(x[7], y[7]), BitOr(x[8], y[8])>>

\* u64::cmp: the first digit that differs decides.
U64Less(x, y) ==
    \E i \in 1..8 : x[i] < y[i] /\ \A j \in 1..(i - 1) : x[j] = y[j]

\* -------------------------------------------------------------------- Md5

\* The 16-byte MD5 digest of each identity (bytes 0..15 at indices 1..16).
\* A and B are two identities whose digests agree on bytes 0..7.
Digest(s) ==
    CASE s = "A" -> <<17, 34, 51, 68, 85, 102, 119, 64, 1, 2, 3, 4, 5, 6, 7, 8>>
      [] s = "B" -> <<17, 34, 51, 68, 85, 102, 119, 64, 21, 22, 23, 24, 25, 26, 27, 28>>
      [] s = "C" -> <<200, 1, 2, 3, 4, 5, 6, 128, 9, 9, 9, 9, 9, 9, 9, 9>>
      [] s = "D" -> <<7, 7, 7, 7, 7, 7, 7, 32, 40, 41, 42, 43, 44, 45, 46, 47>>
      [] s = "lo" -> <<250, 9, 8, 7, 6, 5, 4, 3, 0, 0, 0, 0, 0, 0, 0, 1>>
      [] s = "mid" -> <<255, 255, 255, 255, 255, 255, 5, 128, 3, 1, 4, 1, 5, 9, 2, 6>>
      [] s = "hi" -> <<1, 2, 3, 4, 5, 6, 7, 255, 2, 7, 1, 8, 2, 8, 1, 8>>

\* The digest of everything fed to the hasher since its last reset: of one
\* identity, its digest; of several, the digest of their concatenation (some
\* other 16 bytes); of nothing, MD5 of the empty string.
Md5Digest(input) ==
    IF Len(input) = 1 THEN Digest(input[1])
    ELSE IF Len(input) = 0
    THEN <<212, 29, 140, 217, 143, 0, 178, 4, 233, 128, 9, 152, 236, 248, 66, 126>>
    ELSE [i \in 1..16 |->
            (Digest(input[1])[i] + 3 * Digest(input[Len(input)])[17 - i] + Len(input)) % 256]

\* Md5::new(): nothing fed.
Md5New == <<>>

\* Digest::reset.
Md5Reset(h) == <<>>

\* Digest::input_str.
Md5InputStr(h, s) == Append(h, s)

\* ---------------------------------------------------------------- Node<T>

\* Node::new.
NodeNew(key, node) == [key |-> key, node |-> node]

\* Ord for Node<T>: by key alone.
NodeLess(a, b) == U64Less(a.key, b.key)

\* a, then b, is in order (a <= b).
NodeLe(a, b) == ~NodeLess(b, a)

\* ------------------------------------------------------------ Vec methods

\* Vec::sort, a stable sort: each element goes behind the elements that are
\* not greater than it.
RECURSIVE InsertSorted(_, _)
InsertSorted(sorted, x) ==
    IF sorted = <<>> THEN <<x>>
    ELSE IF NodeLe(sorted[Len(sorted)], x) THEN Append(sorted, x)
    ELSE Append(InsertSorted(SubSeq(sorted, 1, Len(sorted) - 1), x), sorted[Len(sorted)])

RECURSIVE SortFrom(_, _)
SortFrom(done, rest) ==
    IF rest = <<>> THEN done
    ELSE SortFrom(InsertSorted(done, rest[1]), Tail(rest))

VecSort(v) == SortFrom(<<>>, v)

\* Vec::swap_remove(n): the last element takes the place of the n-th.
VecSwapRemove(v, n) ==
    [j \in 1..(Len(v) - 1) |-> IF j = n + 1 THEN v[Len(v)] ELSE v[j]]

\* Vec::remove(n), n counted from 0.
VecRemove(v, n) == SubSeq(v, 1, n) \o SubSeq(v, n + 2, Len(v))

\* slice::binary_search_by(|node| node.key.cmp(&key)), n counted from 0.  With
\* several elements that compare Equal the index found depends on the standard
\* library the crate is built with; releases of it have shipped two searches.
\*
\* The first returns at the first probe that compares Equal:
\*   while left < right { mid = left + size / 2; Less: left = mid + 1;
\*     Greater: right = mid; Equal: return Ok(mid); size = right - left }
\*   Err(left)
RECURSIVE SearchEarly(_, _, _, _)
SearchEarly(v, key, left, right) ==
    IF left < right
    THEN LET mid == left + (right - left) \div 2
         IN IF U64Less(v[mid + 1].key, key) THEN SearchEarly(v, key, mid + 1, right)
            ELSE IF U64Less(key, v[mid + 1].key) THEN SearchEarly(v, key, left, mid)
            ELSE [ok |-> TRUE, n |-> mid]
    ELSE [ok |-> FALSE, n |-> left]

\* The second narrows to the last element that is not Greater and compares
\* once more at the end:
\*   while size > 1 { half = size / 2; mid = base + half;
\*     base = if cmp == Greater { base } else { mid }; size -= half }
\*   if cmp(base) == Equal { Ok(base) } else { Err(base + (cmp == Less)) }
RECURSIVE SearchBase(_, _, _, _)
SearchBase(v, key, base, size) ==
    IF size > 1
    THEN LET half == size \div 2
             mid == base + half
         IN SearchBase(v, key, IF U64Less(key, v[mid + 1].key) THEN base ELSE mid,
                       size - half)
    ELSE base

SearchLast(v, key) ==
    IF Len(v) = 0 THEN [ok |-> FALSE, n |-> 0]
    ELSE LET base == SearchBase(v, key, 0, Len(v))
         IN IF v[base + 1].key = key THEN [ok |-> TRUE, n |-> base]
            ELSE [ok |-> FALSE,
                  n |-> base + (IF U64Less(v[base + 1].key, key) THEN 1 ELSE 0)]

\* The searches a build can have.
Builds == {"early", "last"}

BinarySearch(b, v, key) ==
    IF b = "early" THEN SearchEarly(v, key, 0, Len(v)) ELSE SearchLast(v, key)

\* ----------------------------------------------------------- HashRing<T,U>

\* Default for HashRing / HashRing::new.
Default == [ring |-> <<>>, hash |-> Md5New, buf |-> [i \in 1..16 |-> 0]]

new == Default

\* HashRing::len.
len(self) == Len(self.ring)

\* is_empty taking a ring of one entry for empty.
is_empty_one(self) == Len(self.ring) <= 1

\* HashRing::is_empty.
is_empty(self) == Len(self.ring) = 0

\* The u64 get_key assembles from the scratch buffer (buf[i] at index i+1).
KeyFromBuf(buf) ==
    U64Or(U64Shl(U64From(buf[8]), 56),
    U64Or(U64Shl(U64From(buf[7]), 48),
    U64Or(U64Shl(U64From(buf[6]), 40),
    U64Or(U64Shl(U64From(buf[5]), 32),
    U64Or(U64Shl(U64From(buf[4]), 24),
    U64Or(U64Shl(U64From(buf[3]), 16),
    U64Or(U64Shl(U64From(buf[2]), 8),
          U64From(buf[1]))))))))

\* The hasher fed without the reset.
KeyHasherNoReset(hash, s) == Md5InputStr(hash, s)

\* The hasher after get_key's reset and input_str.
KeyHasher(hash, s) == Md5InputStr(Md5Reset(hash), s)

\* HashRing::get_key: the ring after the call (hasher and buffer used) and
\* the key n.
get_key(self, s) ==
    LET h == KeyHasher(self.hash, s)
        b == Md5Digest(h)
    IN [self |-> [self EXCEPT !.hash = h, !.buf = b], n |-> KeyFromBuf(b)]

\* add leaving out a node whose key the ring already holds.
add_dedup(self, node) ==
    LET k == get_key(self, ToString(node))
    IN IF \E i \in 1..Len(k.self.ring) : k.self.ring[i].key = k.n
       THEN k.self
       ELSE [k.self EXCEPT !.ring = VecSort(Append(k.self.ring, NodeNew(k.n, node)))]

\* add putting the node in front, without the sort.
add_front(self, node) ==
    LET k == get_key(self, ToString(node))
    IN [k.self EXCEPT !.ring = <<NodeNew(k.n, node)>> \o k.self.ring]

\* add without the sort after the push.
add_push(self, node) ==
    LET k == get_key(self, ToString(node))
    IN [k.self EXCEPT !.ring = Append(k.self.ring, NodeNew(k.n, node))]

\* HashRing::add: the ring after the call.
add(self, node) ==
    LET k == get_key(self, ToString(node))
    IN [k.self EXCEPT !.ring = VecSort(Append(k.self.ring, NodeNew(k.n, node)))]

\* remove taking Err(n) for an index as get does.
remove_near(b, self, node) ==
    LET k == get_key(self, ToString(node))
        r == BinarySearch(b, k.self.ring, k.n)
    IN IF r.n < Len(k.self.ring)
       THEN [self |-> [k.self EXCEPT !.ring = VecRemove(k.self.ring, r.n)],
             ret |-> k.self.ring[r.n + 1].node, key |-> k.n, idx |-> r.n]
       ELSE [self |-> k.self, ret |-> None, key |-> k.n, idx |-> -1]

\* remove detaching every entry of the key it finds.
remove_all(b, self, node) ==
    LET k == get_key(self, ToString(node))
        r == BinarySearch(b, k.self.ring, k.n)
    IN IF r.ok
       THEN [self |-> [k.self EXCEPT !.ring = SelectSeq(k.self.ring, LAMBDA e : e.key # k.n)],
             ret |-> k.self.ring[r.n + 1].node, key |-> k.n, idx |-> r.n]
       ELSE [self |-> k.self, ret |-> None, key |-> k.n, idx |-> -1]

\* HashRing::remove under build b: the ring after the call, the Option
\* returned, the key looked for and the index detached (-1: none).
remove(b, self, node) ==
    LET k == get_key(self, ToString(node))
        r == BinarySearch(b, k.self.ring, k.n)
    IN IF r.ok
       THEN [self |-> [k.self EXCEPT !.ring = VecRemove(k.self.ring, r.n)],
             ret |-> k.self.ring[r.n + 1].node, key |-> k.n, idx |-> r.n]
       ELSE [self |-> k.self, ret |-> None, key |-> k.n, idx |-> -1]

\* get's index without the wrap: past the end stays on the last entry.
GetIndexNoWrap(ring, r) == IF r.n = Len(ring) THEN Len(ring) - 1 ELSE r.n

\* The index get settles on after its search: past the end wraps to 0.
GetIndex(ring, r) == IF r.n = Len(ring) THEN 0 ELSE r.n

\* HashRing::get under build b: the ring after the call, the Option returned,
\* the key looked for and the index of the entry returned (-1: none).
get(b, self, key) ==
    IF is_empty(self)
    THEN [self |-> self, ret |-> None, key |-> U64From(0), idx |-> -1]
    ELSE LET k == get_key(self, ToString(key))
             n == GetIndex(k.self.ring, BinarySearch(b, k.self.ring, k.n))
         IN [self |-> k.self, ret |-> k.self.ring[n + 1].node, key |-> k.n, idx |-> n]

\* ------------------------------------------------------------------ state

VARIABLES
    build,  \* the binary search of the standard library the crate is built with
    self,   \* the HashRing: ring (Vec<Node<T>>), hash (Md5), buf ([u8; 16])
    peer,   \* a second HashRing, of the two-ring specification
    last,   \* the last call on self: op, arg, ret, key, len0 (len before), idx
    nAdd,   \* add calls made on self
    nRem,   \* remove calls on self that returned a node
    dup     \* progress through add(x); add(x); remove(&x) three times

vars == <<build, self, peer, last, nAdd, nRem, dup>>

Idle == [stage |-> 0, x |-> None, len0 |-> 0]

Init ==
    /\ build \in Builds
    /\ self = new
    /\ peer = new
    /\ last = [op |-> "new", arg |-> None, ret |-> None, key |-> U64From(0),
               len0 |-> 0, idx |-> -1]
    /\ nAdd = 0
    /\ nRem = 0
    /\ dup = Idle

\* Whether some entry of ring has the hash h.
HasHash(ring, h) == \E i \in 1..Len(ring) : ring[i].key = h

\* ring.add(x).
Add(x) ==
    LET h == get_key(self, ToString(x)).n
    IN /\ len(self) < MaxRing
       /\ nAdd < MaxAdds
       /\ self' = add(self, x)
       /\ last' = [op |-> "add", arg |-> x, ret |-> None, key |-> h,
                   len0 |-> len(self), idx |-> -1]
       /\ nAdd' = nAdd + 1
       /\ dup' = IF dup.stage = 1 /\ dup.x = x
                 THEN [dup EXCEPT !.stage = 2]
                 ELSE IF ~HasHash(self.ring, h)
                 THEN [stage |-> 1, x |-> x, len0 |-> len(self)]
                 ELSE Idle
       /\ UNCHANGED <<build, peer, nRem>>

\* ring.remove(&x).
Remove(x) ==
    LET o == remove(build, self, x)
    IN /\ self' = o.self
       /\ last' = [op |-> "remove", arg |-> x, ret |-> o.ret, key |-> o.key,
                   len0 |-> len(self), idx |-> o.idx]
       /\ nRem' = IF o.ret # None THEN nRem + 1 ELSE nRem
       /\ dup' = IF dup.stage \in {2, 3, 4} /\ dup.x = x
                 THEN [dup EXCEPT !.stage = dup.stage + 1]
                 ELSE Idle
       /\ UNCHANGED <<build, peer, nAdd>>

\* ring.get(&k).
Get(k) ==
    LET o == get(build, self, k)
    IN /\ self' = o.self
       /\ last' = [op |-> "get", arg |-> k, ret |-> o.ret, key |-> o.key,
                   len0 |-> len(self), idx |-> o.idx]
       /\ dup' = Idle
       /\ UNCHANGED <<build, peer, nAdd, nRem>>

Next ==
    \/ \E x \in Nodes : Add(x)
    \/ \E x \in Nodes : Remove(x)
    \/ \E k \in Keys : Get(k)

Spec == Init /\ [][Next]_vars

\* Two rings, each populated by add alone.

\* ring.add(x) on the first ring.
DetAdd(x) ==
    /\ len(self) < MaxDet
    /\ Add(x)

\* ring.add(x) on the second ring.
PeerAdd(x) ==
    /\ len(peer) < MaxDet
    /\ peer' = add(peer, x)
    /\ UNCHANGED <<build, self, last, nAdd, nRem, dup>>

NextDet ==
    \/ \E x \in Nodes : DetAdd(x)
    \/ \E x \in Nodes : PeerAdd(x)

SpecDet == Init /\ [][NextDet]_vars

\* ---------------------------------------------- what the claims speak of

\* The u64 whose little-endian bytes are bytes 0..7 of digest d: byte 7 is the
\* most significant digit, byte 0 the least.
U64LE(d) == <<d[8], d[7], d[6], d[5], d[4], d[3], d[2], d[1]>>

\* The hash of a node or key value: of the MD5 digest of its identity.
HashOf(v) == U64LE(Digest(ToString(v)))

\* The identity strings of the callers' values.
Idents == {ToString(v) : v \in Nodes \union Keys}

\* The hashes in non-decreasing order.
Sorted(ring) ==
    \A i \in 1..(Len(ring) - 1) : ~U64Less(ring[i + 1].key, ring[i].key)

\* The hashes stored in ring.
Stored(ring) == {ring[i].key : i \in 1..Len(ring)}

\* The least u64 of a non-empty set.
MinU64(S) == CHOOSE m \in S : \A o \in S : ~U64Less(o, m)

\* The hash of the successor of h on a non-empty ring: the smallest stored
\* hash >= h, or the smallest stored hash when h is above them all.
SuccHash(ring, h) ==
    LET ge == {s \in Stored(ring) : ~U64Less(s, h)}
    IN IF ge # {} THEN MinU64(ge) ELSE MinU64(Stored(ring))

\* v without its i-th element (i counted from 1).
DropAt(v, i) == [j \in 1..(Len(v) - 1) |-> IF j < i THEN v[j] ELSE v[j + 1]]

\* ------------------------------------------------------------------ claims

\* C1: on a non-empty ring, get(key) returns the node of an entry whose hash
\* is the smallest stored hash >= the key's hash, and the node of an entry
\* with the smallest stored hash when the key's hash is above every stored one.
C1_GetSuccessor ==
    (last.op = "get" /\ ~is_empty(self)) =>
        /\ last.ret # None
        /\ last.idx \in 0..(len(self) - 1)
        /\ self.ring[last.idx + 1].node = last.ret
        /\ self.ring[last.idx + 1].key = SuccHash(self.ring, HashOf(last.arg))
        /\ (\A s \in Stored(self.ring) : U64Less(s, HashOf(last.arg)))
              => self.ring[last.idx + 1].key = MinU64(Stored(self.ring))

\* A get whose key hashes above every stored hash, on a ring of two hashes.
C1_Witness ==
    /\ last.op = "get"
    /\ Cardinality(Stored(self.ring)) >= 2
    /\ \A s \in Stored(self.ring) : U64Less(s, HashOf(last.arg))
    /\ last.idx = 0

\* C2: is_empty() is true exactly when len() = 0 and exactly when get returns
\* None for every key; a get returns None if and only if the ring is empty.
C2_Emptiness ==
    /\ is_empty(self) <=> (len(self) = 0)
    /\ is_empty(self) <=> (\A k \in Keys : get(build, self, k).ret = None)
    /\ (\E k \in Keys : get(build, self, k).ret = None) => (len(self) = 0)
    /\ last.op = "get" => ((last.ret = None) <=> (len(self) = 0))

\* A get that returned None on a ring emptied by removes.
C2_Witness ==
    /\ last.op = "get"
    /\ last.ret = None
    /\ nRem >= 1
    /\ is_empty(self)

\* C5: len() is the number of add calls less the number of remove calls that
\* returned a node; a get, and a remove that returns None, leave len as it was.
C5_SizeAccounting ==
    /\ len(self) = nAdd - nRem
    /\ last.op = "get" => len(self) = last.len0
    /\ (last.op = "remove" /\ last.ret = None) => len(self) = last.len0

\* A remove that returned None after adds and a remove that returned a node.
C5_Witness ==
    /\ last.op = "remove"
    /\ last.ret = None
    /\ nAdd >= 3
    /\ nRem >= 1
    /\ len(self) >= 2

\* C9: the entries are in non-decreasing order of hash after every add and
\* remove, and a get leaves the entries as they were.
C9_Sorted ==
    /\ [](Sorted(self.ring))
    /\ [][last'.op = "get" => self'.ring = self.ring]_vars

\* A ring with two entries of one hash and an entry of another, built by adds
\* around a remove that returned a node.
C9_Witness ==
    /\ last.op = "add"
    /\ nRem >= 1
    /\ len(self) >= 3
    /\ \E i \in 1..(len(self) - 1) : self.ring[i].key = self.ring[i + 1].key
    /\ \E i \in 1..(len(self) - 1) : U64Less(self.ring[i].key, self.ring[i + 1].key)

\* C8: the key of an identity s has digest[i] of MD5(s) as its digit of weight
\* 256^i for i = 0..7 (little-endian), bytes 8..15 of the digest have no part
\* in it, and it is the same whatever calls used the hasher and the buffer
\* before: for a key computed now, for the key of the last call, and for the
\* keys stored by earlier adds.
C8_KeyIsLittleEndianMd5 ==
    /\ \A s \in Idents :
          LET k == get_key(self, s)
          IN /\ \A i \in 0..7 : k.n[8 - i] = Digest(s)[i + 1]
             /\ k.self.buf = Digest(s)
             /\ \A u \in Idents :
                   (\A i \in 1..8 : Digest(s)[i] = Digest(u)[i])
                       => k.n = get_key(self, u).n
    /\ (last.op \in {"add", "remove"} \/ (last.op = "get" /\ last.ret # None))
          => (last.key = HashOf(last.arg) /\ self.buf = Digest(ToString(last.arg)))
    /\ \A i \in 1..len(self) : self.ring[i].key = HashOf(self.ring[i].node)

\* A get of key kmid, the hasher and buffer used by earlier adds, on a ring
\* holding two nodes whose digests differ in bytes 8..15 alone.
C8_Witness ==
    /\ last.op = "get"
    /\ last.arg = "kmid"
    /\ last.key = <<128, 5, 255, 255, 255, 255, 255, 255>>
    /\ \E i, j \in 1..len(self) :
          /\ self.ring[i].node = "n1"
          /\ self.ring[j].node = "n2"
          /\ self.ring[i].key = self.ring[j].key

C4_RoundTrip ==
    [][(last.op = "add" /\ last'.op = "remove" /\ last'.arg = last.arg) =>
        /\ last'.ret # None
        /\ ToString(last'.ret) = ToString(last.arg)
        /\ len(self') = last.len0]_vars

\* C7: on a ring with no entry of x's hash, after add(x); add(x) both entries
\* are in the ring (len is greater by 2), the next two remove(&x) each return
\* a node, and a third returns None.
C7_DuplicateTolerance ==
    /\ dup.stage = 2 =>
          /\ len(self) = dup.len0 + 2
          /\ Cardinality({i \in 1..len(self) : self.ring[i].node = dup.x}) = 2
    /\ dup.stage \in {3, 4} => (last.op = "remove" /\ last.ret # None)
    /\ dup.stage = 5 => (last.op = "remove" /\ last.ret = None /\ len(self) = dup.len0)

\* The third remove(&x) made, on a ring that held another node all along.
C7_Witness ==
    /\ dup.stage = 5
    /\ dup.len0 >= 1

\* Where the entry at index i is after the entry at index j is detached.
Shift(i, j) == IF i > j THEN i - 1 ELSE i

\* The entries of ring with the hash of the entry at index i (from 0).
SameHash(ring, i) == {j \in 1..Len(ring) : ring[j].key = ring[i + 1].key}

\* C10 as stated: after a remove that returned a node, every key that get
\* served by an entry other than the detached one is served by that same entry.
C10_SameEntry ==
    [][(last'.op = "remove" /\ last'.ret # None) =>
        \A k \in Keys :
            LET before == get(build, self, k)
                after == get(build, self', k)
            IN before.idx # last'.idx => after.idx = Shift(before.idx, last'.idx)]_vars

\* C10: after a remove that returned a node, every key that get served by an
\* entry other than the detached one is served by an entry of the same hash,
\* and by that same entry when no other entry had its hash.
C10_SameHash ==
    [][(last'.op = "remove" /\ last'.ret # None) =>
        \A k \in Keys :
            LET before == get(build, self, k)
                after == get(build, self', k)
            IN before.idx # last'.idx =>
                /\ after.ret # None
                /\ self'.ring[after.idx + 1].key = self.ring[before.idx + 1].key
                /\ Cardinality(SameHash(self.ring, before.idx)) = 1 =>
                      after.idx = Shift(before.idx, last'.idx)]_vars

\* A remove that returned a node and left two entries of different hashes.
C10_Witness ==
    /\ last.op = "remove"
    /\ last.ret # None
    /\ len(self) = 2
    /\ self.ring[1].key # self.ring[2].key

\* How many entries of ring hold a node of each identity.
IdentBag(ring) ==
    [s \in Idents |-> Cardinality({i \in 1..Len(ring) : ToString(ring[i].node) = s})]

\* Two distinct identities held by ring have one hash.
Collides(ring) ==
    \E i, j \in 1..Len(ring) :
        /\ ring[i].key = ring[j].key
        /\ ToString(ring[i].node) # ToString(ring[j].node)

\* C6 as stated: two rings populated by add with the same multiset of node
\* identities return the same node (by identity) for every key.
C6_SameNode ==
    IdentBag(self.ring) = IdentBag(peer.ring) =>
        \A k \in Keys :
            LET a == get(build, self, k).ret
                b == get(build, peer, k).ret
            IN \/ a = None /\ b = None
               \/ a # None /\ b # None /\ ToString(a) = ToString(b)

\* C6: two rings populated by add with the same multiset of node identities
\* return for every key nodes of the same hash, and nodes of the same identity
\* when no two distinct identities of the multiset have one hash.
C6_SameHash ==
    IdentBag(self.ring) = IdentBag(peer.ring) =>
        \A k \in Keys :
            LET a == get(build, self, k).ret
                b == get(build, peer, k).ret
            IN \/ a = None /\ b = None
               \/ /\ a # None
                  /\ b # None
                  /\ HashOf(a) = HashOf(b)
                  /\ ~Collides(self.ring) => ToString(a) = ToString(b)

\* Two rings of the same two identities with different hashes, the last node
\* added to one not the last added to the other.
C6_Witness ==
    /\ IdentBag(self.ring) = IdentBag(peer.ring)
    /\ len(self) = 2
    /\ self.ring[1].key # self.ring[2].key
    /\ self.hash # peer.hash

====
